---- MODULE Spec2Model ----
(***************************************************************************)
(* Model of the musicbridge mapping service (src/backend/index.js):        *)
(* the Spotify token cache, the link parser, the song/album handlers and   *)
(* the playlist handler with its paginated listing and per-track fan-out.  *)
(* Time is in seconds (the source keeps milliseconds: every term of        *)
(* line 58 is a multiple of 1000).                                         *)
(***************************************************************************)
EXTENDS Integers, Sequences, FiniteSets, TLC

\* ---------------------------------------------------------------- bounds
NCallers == 3        \* concurrent callers of getSpotifyToken in CacheSpec
NReq == 1            \* request slots served concurrently by the handlers
MaxPages == 3        \* pages of a playlist, the first included
MaxPageItems == 2    \* items on one page
MaxItems == 3        \* items of a playlist
MaxExchanges == 2    \* token exchange requests issued in one behaviour
MaxNow == 400        \* the clock stops advancing here
TickSeconds == 100   \* granularity of the clock

\* safety margin of line 58: (json.expires_in - 300)
SafetyMargin == 300

\* expires_in values the token endpoint may answer with
Ttls == {200, 300, 500}

Callers == 1..NCallers
Reqs == 1..NReq
Procs == Callers \cup Reqs

Null == "null"

VARIABLES
  now,                \* Date.now()
  spotifyTokenCache,  \* [token, expires]; token 0 is null
  env,                \* [id, secret]: presence of the two secrets
  tpc,                \* per process: position inside getSpotifyToken
  tok,                \* per process: value the call returned (0: none)
  terr,               \* per process: error the call threw
  exchanges,          \* number of token exchange requests issued so far
  tlog,               \* per process: history of the current call
  pc,                 \* per request slot: position inside its handler
  req,                \* per request slot: [ep, url] of the request
  src,                \* per request slot: the source entity fetched
  calls,              \* per request slot: outbound calls issued, in order
  resp,               \* per request slot: the response sent
  ans,                \* per request slot: what the two searches answered
  pl,                 \* per request slot: locals of getSpotifyPlaylist
  items,              \* per request slot: the per-track promises
  plResp,             \* per request slot: matches and trackCount sent
  parsedLink,         \* per process: the link parseInputUrl returned
  prev,               \* per request slot: the request served before this one
  redirect            \* per request slot: the /r/ handler that called the mapper

cacheVars == <<now, spotifyTokenCache, env, tpc, tok, terr, exchanges, tlog>>
plVars == <<pl, items, plResp>>
reqVars == <<pc, req, src, calls, resp, ans, plVars>>
otherVars == <<parsedLink, prev, redirect>>
vars == <<cacheVars, reqVars, otherVars>>

\* history of one call of getSpotifyToken: the cache and the clock when it
\* started (startTok, startExp, startAt), the exchange it issued (sent, 0 for
\* none), how it returned (via), and for a return the clock (at) and, after
\* an exchange, the expires_in received (ttl) and the expiry stored (exp)
NoLog == [via |-> "none", startAt |-> 0, startExp |-> 0, startTok |-> 0,
          sent |-> 0, at |-> 0, exp |-> 0, ttl |-> 0]

CacheValid_Late(c, t) == c.token # 0 /\ t <= c.expires

\* line 30: spotifyTokenCache.token && Date.now() < spotifyTokenCache.expires
CacheValid(c, t) == c.token # 0 /\ t < c.expires

SecretsMissing_Ignored == FALSE

\* line 37: !id || !secret
SecretsMissing == ~env.id \/ ~env.secret

ExpiryOf_NoMargin(t, ttl) == t + ttl

\* line 58: Date.now() + (json.expires_in - 300) * 1000
ExpiryOf(t, ttl) == t + (ttl - SafetyMargin)

\* lines 56-58: the cache after a successful exchange
StoreToken(token, t, ttl) == [token |-> token, expires |-> ExpiryOf(t, ttl)]

\* lines 28-48: the synchronous part of a call of getSpotifyToken by p,
\* up to its first await
GetSpotifyTokenCall(p) ==
  LET base == [NoLog EXCEPT !.startAt = now,
                            !.startExp = spotifyTokenCache.expires,
                            !.startTok = spotifyTokenCache.token]
  IN
  IF CacheValid(spotifyTokenCache, now)
  THEN /\ tpc' = [tpc EXCEPT ![p] = "returned"]
       /\ tok' = [tok EXCEPT ![p] = spotifyTokenCache.token]
       /\ terr' = [terr EXCEPT ![p] = "none"]
       /\ tlog' = [tlog EXCEPT ![p] = [base EXCEPT !.via = "cache", !.at = now,
                                                !.exp = spotifyTokenCache.expires]]
       /\ UNCHANGED exchanges
  ELSE IF SecretsMissing
  THEN /\ tpc' = [tpc EXCEPT ![p] = "threw"]
       /\ tok' = [tok EXCEPT ![p] = 0]
       /\ terr' = [terr EXCEPT ![p] = "config"]
       /\ tlog' = [tlog EXCEPT ![p] = base]
       /\ UNCHANGED exchanges
  ELSE /\ exchanges < MaxExchanges
       /\ tpc' = [tpc EXCEPT ![p] = "exchanging"]
       /\ tok' = [tok EXCEPT ![p] = 0]
       /\ terr' = [terr EXCEPT ![p] = "none"]
       /\ exchanges' = exchanges + 1
       /\ tlog' = [tlog EXCEPT ![p] = [base EXCEPT !.sent = exchanges + 1]]

\* lines 49-60: the token endpoint answered 2xx with expires_in = ttl
TokenExchangeOk(p) ==
  /\ tpc[p] = "exchanging"
  /\ \E ttl \in Ttls :
       /\ spotifyTokenCache' = StoreToken(tlog[p].sent, now, ttl)
       /\ tlog' = [tlog EXCEPT ![p].via = "exchange", ![p].at = now,
                               ![p].ttl = ttl,
                               ![p].exp = spotifyTokenCache'.expires]
  /\ tok' = [tok EXCEPT ![p] = spotifyTokenCache'.token]
  /\ tpc' = [tpc EXCEPT ![p] = "returned"]
  /\ UNCHANGED <<now, env, terr, exchanges>>
  /\ UNCHANGED reqVars
  /\ UNCHANGED otherVars

\* lines 49-52: the token endpoint answered non-2xx
TokenExchangeRejected(p) ==
  /\ tpc[p] = "exchanging"
  /\ tpc' = [tpc EXCEPT ![p] = "threw"]
  /\ terr' = [terr EXCEPT ![p] = "provider"]
  /\ UNCHANGED <<now, spotifyTokenCache, env, tok, exchanges, tlog>>
  /\ UNCHANGED reqVars
  /\ UNCHANGED otherVars

\* line 41: fetch itself rejects (transport failure)
TokenExchangeThrows(p) ==
  /\ tpc[p] = "exchanging"
  /\ tpc' = [tpc EXCEPT ![p] = "threw"]
  /\ terr' = [terr EXCEPT ![p] = "transport"]
  /\ UNCHANGED <<now, spotifyTokenCache, env, tok, exchanges, tlog>>
  /\ UNCHANGED reqVars
  /\ UNCHANGED otherVars

\* a handler reaches `await getSpotifyToken()` (lines 315, 339, 393, 416, 476)
CallerInvoke(p) ==
  /\ tpc[p] = "none"
  /\ GetSpotifyTokenCall(p)
  /\ UNCHANGED <<now, spotifyTokenCache, env>>
  /\ UNCHANGED reqVars
  /\ UNCHANGED otherVars

\* the awaiting handler resumes with the token or the exception
CallerResume(p) ==
  /\ tpc[p] \in {"returned", "threw"}
  /\ tpc' = [tpc EXCEPT ![p] = "none"]
  /\ tok' = [tok EXCEPT ![p] = 0]
  /\ terr' = [terr EXCEPT ![p] = "none"]
  /\ tlog' = [tlog EXCEPT ![p] = NoLog]
  /\ UNCHANGED <<now, spotifyTokenCache, env, exchanges>>
  /\ UNCHANGED reqVars
  /\ UNCHANGED otherVars

\* time passes
Tick ==
  /\ now + TickSeconds <= MaxNow
  /\ now' = now + TickSeconds
  /\ UNCHANGED <<spotifyTokenCache, env, tpc, tok, terr, exchanges, tlog>>
  /\ UNCHANGED reqVars
  /\ UNCHANGED otherVars

\* ------------------------------------------------------------ link parser
\* A URL string as the WHATWG parser sees it: ok (syntax valid), hostname,
\* path segments (pathname.split('/').filter(Boolean)) and the value of the
\* query parameter i ("" when absent or empty).
MissingUrl == [present |-> FALSE, ok |-> FALSE, host |-> "", parts |-> <<>>, i |-> ""]
MkUrl(host, parts, i) == [present |-> TRUE, ok |-> TRUE, host |-> host, parts |-> parts, i |-> i]
BadUrl == [present |-> TRUE, ok |-> FALSE, host |-> "", parts |-> <<>>, i |-> ""]

\* String.prototype.includes on the host names the model uses
HostIncludes(host, marker) ==
  <<host, marker>> \in { <<"open.spotify.com", "open.spotify.com">>,
                         <<"music.apple.com", "music.apple.com">>,
                         <<"geo.music.apple.com", "music.apple.com">>,
                         <<"itunes.apple.com", "itunes.apple.com">> }

\* /^\d+$/.test(s) on the path segments the model uses
DigitSegs == {"123", "456"}
IsDigits(s) == s \in DigitSegs

At_FromOne(parts, k) == IF k >= 1 /\ k <= Len(parts) THEN parts[k] ELSE Null

\* parts[k], JavaScript index from 0; Null stands for undefined
At(parts, k) == IF k >= 0 /\ k + 1 <= Len(parts) THEN parts[k + 1] ELSE Null

FindAlbum_Last(parts) ==
  IF \E k \in 1..Len(parts) : parts[k] = "album"
  THEN (CHOOSE k \in 1..Len(parts) :
          parts[k] = "album" /\ \A j \in (k + 1)..Len(parts) : parts[j] # "album") - 1
  ELSE -1

\* parts.findIndex(p => p === 'album'), JavaScript index, -1 when absent
FindAlbum(parts) ==
  IF \E k \in 1..Len(parts) : parts[k] = "album"
  THEN (CHOOSE k \in 1..Len(parts) :
          parts[k] = "album" /\ \A j \in 1..(k - 1) : parts[j] # "album") - 1
  ELSE -1

Link(platform, kind, id) == [platform |-> platform, kind |-> kind, id |-> id]

NoLink == Link("none", "none", Null)

\* lines 72-84: a Spotify host
ParseSpotify(u) ==
  IF At(u.parts, 0) = "track" THEN Link("spotify", "song", At(u.parts, 1))
  ELSE IF At(u.parts, 0) = "album" THEN Link("spotify", "album", At(u.parts, 1))
  ELSE IF At(u.parts, 0) = "playlist" THEN Link("spotify", "playlist", At(u.parts, 1))
  ELSE Link("spotify", "unknown", Null)

\* lines 91-102: the path of an Apple link
ParseApplePath(parts) ==
  LET albumIdx == FindAlbum(parts)
      maybeId == At(parts, albumIdx + 2)
      last == At(parts, Len(parts) - 1)
  IN IF albumIdx # -1 /\ maybeId # Null /\ IsDigits(maybeId)
       THEN Link("apple", "album", maybeId)
     ELSE IF albumIdx # -1 /\ last # Null /\ IsDigits(last)
       THEN Link("apple", "album", last)
     ELSE Link("apple", "unknown", Null)

ParseApple_PathFirst(u) ==
  IF ParseApplePath(u.parts).kind = "album" THEN ParseApplePath(u.parts)
  ELSE IF u.i # "" THEN Link("apple", "song", u.i)
  ELSE Link("apple", "unknown", Null)

\* lines 87-103: an Apple host; the query parameter i comes first
ParseApple(u) ==
  IF u.i # "" THEN Link("apple", "song", u.i)
  ELSE ParseApplePath(u.parts)

\* lines 65-109
ParseInputUrl(u) ==
  IF ~u.ok THEN Link("invalid", "invalid", Null)
  ELSE IF HostIncludes(u.host, "open.spotify.com") THEN ParseSpotify(u)
  ELSE IF HostIncludes(u.host, "music.apple.com") \/ HostIncludes(u.host, "itunes.apple.com")
    THEN ParseApple(u)
  ELSE Link("unknown", "unknown", Null)

\* the links the handlers are driven with
SampleUrls ==
  { MkUrl("open.spotify.com", <<"track", "abc">>, ""),
    MkUrl("open.spotify.com", <<"track">>, ""),
    MkUrl("open.spotify.com", <<"album", "abc">>, ""),
    MkUrl("open.spotify.com", <<"album">>, ""),
    MkUrl("open.spotify.com", <<"playlist", "abc">>, ""),
    MkUrl("open.spotify.com", <<"playlist">>, ""),
    MkUrl("open.spotify.com", <<"artist", "abc">>, ""),
    MkUrl("music.apple.com", <<"us", "album", "x", "123">>, "456"),
    MkUrl("music.apple.com", <<"us", "album", "x", "123">>, ""),
    MkUrl("itunes.apple.com", <<"us", "artist", "x">>, ""),
    MkUrl("example.com", <<"track", "abc">>, ""),
    BadUrl }

\* ------------------------------------------------------------ the catalogues
\* An entity as its origin provider describes it, with what the destination
\* provider holds for it: code (it carries an ISRC/UPC), named (name and
\* artist present), codeHit (the destination's code search has a result for
\* its code), textHit (the destination's text search has a result).
Catalogue ==
  { e \in [code : BOOLEAN, named : BOOLEAN, codeHit : BOOLEAN, textHit : BOOLEAN] :
      e.codeHit => e.code }
NoEntity == [code |-> FALSE, named |-> FALSE, codeHit |-> FALSE, textHit |-> FALSE]

NoReq == [ep |-> "none", url |-> MissingUrl]
\* what the providers answered to the request: the source fetch (found,
\* missing, non2xx, throw), the code search and the text search
NoAns == [src |-> "none", code |-> "none", text |-> "none"]
NoResp == [status |-> 0, match |-> Null, error |-> "none"]

Parsed(r) == ParseInputUrl(req[r].url)

Route_NoIdCheck(ep, parsed) ==
  IF ep = "song" THEN
    IF parsed.platform = "spotify" /\ parsed.kind = "song" THEN "AB"
    ELSE IF parsed.platform = "apple" /\ parsed.kind = "song" THEN "BA"
    ELSE "unsupported"
  ELSE IF ep = "album" THEN
    IF parsed.platform = "spotify" /\ parsed.kind = "album" THEN "AB"
    ELSE IF parsed.platform = "apple" /\ parsed.kind = "album" THEN "BA"
    ELSE "unsupported"
  ELSE
    IF parsed.platform = "spotify" /\ parsed.kind = "playlist" THEN "AB"
    ELSE "unsupported"

\* the branch a handler takes for a parsed link: lines 314, 333 (/map/song),
\* 392, 411 (/map/album), 475 (/map/playlist)
Route(ep, parsed) ==
  IF ep = "song" THEN
    IF parsed.platform = "spotify" /\ parsed.kind = "song" /\ parsed.id # Null THEN "AB"
    ELSE IF parsed.platform = "apple" /\ parsed.kind = "song" THEN "BA"
    ELSE "unsupported"
  ELSE IF ep = "album" THEN
    IF parsed.platform = "spotify" /\ parsed.kind = "album" /\ parsed.id # Null THEN "AB"
    ELSE IF parsed.platform = "apple" /\ parsed.kind = "album" /\ parsed.id # Null THEN "BA"
    ELSE "unsupported"
  ELSE
    IF parsed.platform = "spotify" /\ parsed.kind = "playlist" /\ parsed.id # Null THEN "AB"
    ELSE "unsupported"

RouteOf(r) == Route(req[r].ep, Parsed(r))

\* res.status(..).json(..) / res.json(..): the handler is over
Respond(r, status, m, err) ==
  /\ pc' = [pc EXCEPT ![r] = "done"]
  /\ resp' = [resp EXCEPT ![r] = [status |-> status, match |-> m, error |-> err]]

\* the call of getSpotifyToken issues a token exchange
WillExchange == ~CacheValid(spotifyTokenCache, now) /\ ~SecretsMissing

Issue_Remembered(r, call) ==
  calls' = [calls EXCEPT ![r] = IF prev[r].has THEN @ ELSE Append(@, call)]

\* an outbound call leaves
Issue(r, call) == calls' = [calls EXCEPT ![r] = Append(@, call)]

\* lines 310, 388, 464: if (!url) return 400
ReceiveMissingUrl(r, ep) ==
  /\ pc[r] = "idle"
  /\ req' = [req EXCEPT ![r] = [ep |-> ep, url |-> MissingUrl]]
  /\ Respond(r, 400, Null, "missing")
  /\ UNCHANGED <<src, calls, ans>>
  /\ UNCHANGED cacheVars
  /\ UNCHANGED plVars
  /\ UNCHANGED otherVars

\* lines 352, 428, 526: no branch takes the parsed link
ReceiveUnsupported(r, ep) ==
  /\ pc[r] = "idle"
  /\ \E u \in SampleUrls :
       /\ Route(ep, ParseInputUrl(u)) = "unsupported"
       /\ req' = [req EXCEPT ![r] = [ep |-> ep, url |-> u]]
  /\ Respond(r, 400, Null, "unsupported")
  /\ UNCHANGED <<src, calls, ans>>
  /\ UNCHANGED cacheVars
  /\ UNCHANGED plVars
  /\ UNCHANGED otherVars

\* lines 314-315, 392-393, 475-476: a Spotify link; the handler runs to its
\* first await inside getSpotifyToken
ReceiveSpotify(r, ep) ==
  /\ pc[r] = "idle"
  /\ \E u \in SampleUrls :
       /\ Route(ep, ParseInputUrl(u)) = "AB"
       /\ req' = [req EXCEPT ![r] = [ep |-> ep, url |-> u]]
  /\ GetSpotifyTokenCall(r)
  /\ calls' = [calls EXCEPT ![r] = IF WillExchange THEN <<"token">> ELSE <<>>]
  /\ pc' = [pc EXCEPT ![r] = "token"]
  /\ UNCHANGED <<src, resp, ans, now, spotifyTokenCache, env>>
  /\ UNCHANGED plVars
  /\ UNCHANGED otherVars

\* lines 333-334, 411-412: an Apple link; itunesLookupById issues its fetch
ReceiveApple(r, ep) ==
  /\ pc[r] = "idle"
  /\ \E u \in SampleUrls :
       /\ Route(ep, ParseInputUrl(u)) = "BA"
       /\ req' = [req EXCEPT ![r] = [ep |-> ep, url |-> u]]
  /\ calls' = [calls EXCEPT ![r] = <<"lookup">>]
  /\ pc' = [pc EXCEPT ![r] = "lookup"]
  /\ UNCHANGED <<src, resp, ans>>
  /\ UNCHANGED cacheVars
  /\ UNCHANGED plVars
  /\ UNCHANGED otherVars

\* lines 220-223 then 335-339 / 413-416: the lookup answered (2xx with a
\* first result, 2xx without, or non-2xx) and the handler calls
\* getSpotifyToken
LookupAnswers(r) ==
  /\ pc[r] = "lookup"
  /\ \/ \E e \in Catalogue :
          /\ src' = [src EXCEPT ![r] = e]
          /\ ans' = [ans EXCEPT ![r].src = "found"]
     \/ \E a \in {"missing", "non2xx"} :
          /\ src' = [src EXCEPT ![r] = NoEntity]
          /\ ans' = [ans EXCEPT ![r].src = a]
  /\ GetSpotifyTokenCall(r)
  /\ calls' = [calls EXCEPT ![r] = IF WillExchange THEN Append(@, "token") ELSE @]
  /\ pc' = [pc EXCEPT ![r] = "token"]
  /\ UNCHANGED <<req, resp, now, spotifyTokenCache, env>>
  /\ UNCHANGED plVars
  /\ UNCHANGED otherVars

\* line 220 rejects: the catch of lines 353-355 / 429-431 answers 500
LookupThrows(r) ==
  /\ pc[r] = "lookup"
  /\ ans' = [ans EXCEPT ![r].src = "throw"]
  /\ Respond(r, 500, Null, "transport")
  /\ UNCHANGED <<req, src, calls>>
  /\ UNCHANGED cacheVars
  /\ UNCHANGED plVars
  /\ UNCHANGED otherVars

\* getSpotifyToken threw: catch, 500. (In the three actions that resume a
\* handler after getSpotifyToken the call's record is dropped; the token
\* itself only travels on in request headers and decides nothing.)
TokenFailed(r) ==
  /\ pc[r] = "token"
  /\ tpc[r] = "threw"
  /\ Respond(r, 500, Null, terr[r])
  /\ tpc' = [tpc EXCEPT ![r] = "none"]
  /\ terr' = [terr EXCEPT ![r] = "none"]
  /\ tlog' = [tlog EXCEPT ![r] = NoLog]
  /\ UNCHANGED <<req, src, calls, ans, now, spotifyTokenCache, env, tok, exchanges>>
  /\ UNCHANGED plVars
  /\ UNCHANGED otherVars

\* lines 316, 394: Spotify origin, the token is in hand: fetch the entity
TokenObtainedSpotify(r) ==
  /\ pc[r] = "token"
  /\ tpc[r] = "returned"
  /\ req[r].ep \in {"song", "album"}
  /\ RouteOf(r) = "AB"
  /\ tpc' = [tpc EXCEPT ![r] = "none"]
  /\ Issue(r, "fetch")
  /\ pc' = [pc EXCEPT ![r] = "fetch"]
  /\ tok' = [tok EXCEPT ![r] = 0]
  /\ tlog' = [tlog EXCEPT ![r] = NoLog]
  /\ UNCHANGED <<req, src, resp, ans, now, spotifyTokenCache, env, terr, exchanges>>
  /\ UNCHANGED plVars
  /\ UNCHANGED otherVars

\* lines 340-349 (song) and 417-425 (album): Apple origin, the token is in
\* hand. The song path searches by ISRC when the lookup carried one; the
\* album path never reads a UPC from the lookup and has no UPC search.
TokenObtainedApple(r) ==
  /\ pc[r] = "token"
  /\ tpc[r] = "returned"
  /\ RouteOf(r) = "BA"
  /\ tpc' = [tpc EXCEPT ![r] = "none"]
  /\ IF req[r].ep = "song" /\ src[r].code
       THEN Issue(r, "code") /\ pc' = [pc EXCEPT ![r] = "code"] /\ UNCHANGED resp
     ELSE IF src[r].named
       THEN Issue(r, "text") /\ pc' = [pc EXCEPT ![r] = "text"] /\ UNCHANGED resp
     ELSE Respond(r, 200, Null, "none") /\ UNCHANGED calls
  /\ tok' = [tok EXCEPT ![r] = 0]
  /\ tlog' = [tlog EXCEPT ![r] = NoLog]
  /\ UNCHANGED <<req, src, ans, now, spotifyTokenCache, env, terr, exchanges>>
  /\ UNCHANGED plVars
  /\ UNCHANGED otherVars

\* lines 117-121 / 128-132 then 317-323 / 395-401: the entity arrived
FetchAnswers(r) ==
  /\ pc[r] = "fetch"
  /\ \E e \in {x \in Catalogue : x.named} :
       /\ src' = [src EXCEPT ![r] = e]
       /\ IF e.code
            THEN Issue(r, "code") /\ pc' = [pc EXCEPT ![r] = "code"]
            ELSE Issue(r, "text") /\ pc' = [pc EXCEPT ![r] = "text"]
  /\ ans' = [ans EXCEPT ![r].src = "found"]
  /\ UNCHANGED <<req, resp>>
  /\ UNCHANGED cacheVars
  /\ UNCHANGED plVars
  /\ UNCHANGED otherVars

\* lines 117-120 / 128-131 (non-2xx) or the fetch rejects: catch, 500
FetchFails(r) ==
  /\ pc[r] = "fetch"
  /\ \E err \in {"upstream", "transport"} :
       /\ Respond(r, 500, Null, err)
       /\ ans' = [ans EXCEPT ![r].src = IF err = "upstream" THEN "non2xx" ELSE "throw"]
  /\ UNCHANGED <<req, src, calls>>
  /\ UNCHANGED cacheVars
  /\ UNCHANGED plVars
  /\ UNCHANGED otherVars

CodeSearchHit_ThenText(r) ==
  /\ pc[r] = "code"
  /\ src[r].codeHit
  /\ ans' = [ans EXCEPT ![r].code = "hit"]
  /\ Issue(r, "text")
  /\ pc' = [pc EXCEPT ![r] = "text"]
  /\ UNCHANGED <<req, src, resp>>
  /\ UNCHANGED cacheVars
  /\ UNCHANGED plVars
  /\ UNCHANGED otherVars

\* the code search answered with a result (lines 179, 201, 234, 265); the
\* text search is skipped (lines 323, 342, 401)
CodeSearchHit(r) ==
  /\ pc[r] = "code"
  /\ src[r].codeHit
  /\ ans' = [ans EXCEPT ![r].code = "hit"]
  /\ Respond(r, 200, "code", "none")
  /\ UNCHANGED <<req, src, calls>>
  /\ UNCHANGED cacheVars
  /\ UNCHANGED plVars
  /\ UNCHANGED otherVars

\* the code search answered null: no item, or non-2xx (lines 175, 197, 230,
\* 261); the text search follows (lines 323, 342, 401)
CodeSearchNull(r) ==
  /\ pc[r] = "code"
  /\ \/ ~src[r].codeHit /\ ans' = [ans EXCEPT ![r].code = "empty"]
     \/ ans' = [ans EXCEPT ![r].code = "non2xx"]
  /\ IF RouteOf(r) = "AB" \/ src[r].named
       THEN Issue(r, "text") /\ pc' = [pc EXCEPT ![r] = "text"] /\ UNCHANGED resp
       ELSE Respond(r, 200, Null, "none") /\ UNCHANGED calls
  /\ UNCHANGED <<req, src>>
  /\ UNCHANGED cacheVars
  /\ UNCHANGED plVars
  /\ UNCHANGED otherVars

\* the text search answered with a result (lines 190, 212, 244, 275)
TextSearchHit(r) ==
  /\ pc[r] = "text"
  /\ src[r].textHit
  /\ ans' = [ans EXCEPT ![r].text = "hit"]
  /\ Respond(r, 200, "text", "none")
  /\ UNCHANGED <<req, src, calls>>
  /\ UNCHANGED cacheVars
  /\ UNCHANGED plVars
  /\ UNCHANGED otherVars

\* the text search answered null: no item, or non-2xx
TextSearchNull(r) ==
  /\ pc[r] = "text"
  /\ \/ ~src[r].textHit /\ ans' = [ans EXCEPT ![r].text = "empty"]
     \/ ans' = [ans EXCEPT ![r].text = "non2xx"]
  /\ Respond(r, 200, Null, "none")
  /\ UNCHANGED <<req, src, calls>>
  /\ UNCHANGED cacheVars
  /\ UNCHANGED plVars
  /\ UNCHANGED otherVars

\* the fetch of a search rejects: catch, 500
SearchThrows(r) ==
  /\ pc[r] \in {"code", "text"}
  /\ Respond(r, 500, Null, "transport")
  /\ UNCHANGED <<req, src, calls, ans>>
  /\ UNCHANGED cacheVars
  /\ UNCHANGED plVars
  /\ UNCHANGED otherVars

\* --------------------------------------------------------- /map/playlist
\* An item of a playlist page: its track (null for a removed track) as an
\* entity of the catalogue.
PlaylistTracks ==
  { [code |-> TRUE,  named |-> TRUE, codeHit |-> TRUE,  textHit |-> TRUE],
    [code |-> TRUE,  named |-> TRUE, codeHit |-> FALSE, textHit |-> TRUE],
    [code |-> FALSE, named |-> TRUE, codeHit |-> FALSE, textHit |-> FALSE] }
PageItems == [track : {TRUE}, e : PlaylistTracks] \cup {[track |-> FALSE, e |-> NoEntity]}

Min(a, b) == IF a < b THEN a ELSE b

\* the pages the provider may answer with once `have` items were served
PagesAfter(have) ==
  UNION { [1..n -> PageItems] : n \in 0..Min(MaxPageItems, MaxItems - have) }

NoPl == [allTracks |-> <<>>, served |-> <<>>, more |-> FALSE, pages |-> 0,
         pageFail |-> "none", inverted |-> FALSE]
NoPlResp == [matches |-> <<>>, original |-> 0, matched |-> 0]

TracksOf_KeepNull(all) == [k \in 1..Len(all) |-> all[k].e]

\* line 166: allTracks.map(item => item.track).filter(Boolean)
TracksOf(all) ==
  LET kept == SelectSeq(all, LAMBDA it : it.track)
  IN [k \in 1..Len(kept) |-> kept[k].e]

\* lines 481-497: one promise per track, each run to its first await
StartItems(tracks) ==
  [k \in 1..Len(tracks) |->
     [e |-> tracks[k], st |-> IF tracks[k].code THEN "code" ELSE "text",
      codeAns |-> "none", apple |-> Null, bad |-> FALSE]]

\* lines 162-167 then 481-507: getSpotifyPlaylist returns what it collected
\* and the handler starts the per-track searches
FinishListing(r, all) ==
  /\ items' = [items EXCEPT ![r] = StartItems(TracksOf(all))]
  /\ pc' = [pc EXCEPT ![r] = "join"]
  /\ UNCHANGED calls
  /\ UNCHANGED otherVars

\* lines 148-152 and 159: keep fetching while next is set
ContinueOrFinish(r, all, more) ==
  IF more
    THEN Issue(r, "page") /\ pc' = [pc EXCEPT ![r] = "page"] /\ UNCHANGED items
    ELSE FinishListing(r, all)

\* line 477 then 137-139: the token is in hand, fetch the playlist
TokenObtainedPlaylist(r) ==
  /\ pc[r] = "token"
  /\ tpc[r] = "returned"
  /\ req[r].ep = "playlist"
  /\ tpc' = [tpc EXCEPT ![r] = "none"]
  /\ tok' = [tok EXCEPT ![r] = 0]
  /\ tlog' = [tlog EXCEPT ![r] = NoLog]
  /\ Issue(r, "meta")
  /\ pc' = [pc EXCEPT ![r] = "meta"]
  /\ UNCHANGED <<req, src, resp, ans, pl, items, plResp>>
  /\ UNCHANGED <<now, spotifyTokenCache, env, terr, exchanges>>
  /\ UNCHANGED otherVars

\* lines 144-148: the playlist with its first page of tracks
MetaAnswers(r) ==
  /\ pc[r] = "meta"
  /\ \E page \in PagesAfter(0), more \in BOOLEAN :
       /\ more => MaxPages > 1
       /\ pl' = [pl EXCEPT ![r] = [allTracks |-> page, served |-> page,
                                   more |-> more, pages |-> 1,
                                   pageFail |-> "none", inverted |-> FALSE]]
       /\ ContinueOrFinish(r, page, more)
  /\ UNCHANGED <<req, src, resp, ans, plResp>>
  /\ UNCHANGED cacheVars
  /\ UNCHANGED otherVars

\* lines 140-143 (non-2xx) or the fetch of line 139 rejects: catch, 500
MetaFails(r) ==
  /\ pc[r] = "meta"
  /\ \E err \in {"upstream", "transport"} : Respond(r, 500, Null, err)
  /\ UNCHANGED <<req, src, calls, ans, pl, items, plResp>>
  /\ UNCHANGED cacheVars
  /\ UNCHANGED otherVars

\* lines 157-159: a later page
PageAnswers(r) ==
  /\ pc[r] = "page"
  /\ \E page \in PagesAfter(Len(pl[r].served)), more \in BOOLEAN :
       /\ more => pl[r].pages + 1 < MaxPages
       /\ pl' = [pl EXCEPT ![r].allTracks = @ \o page, ![r].served = @ \o page,
                           ![r].more = more, ![r].pages = @ + 1]
       /\ ContinueOrFinish(r, pl[r].allTracks \o page, more)
  /\ UNCHANGED <<req, src, resp, ans, plResp>>
  /\ UNCHANGED cacheVars
  /\ UNCHANGED otherVars

\* lines 153-156: a later page answered non-2xx: break, keep what we have
PageNon2xx(r) ==
  /\ pc[r] = "page"
  /\ pl' = [pl EXCEPT ![r].pageFail = "non2xx"]
  /\ FinishListing(r, pl[r].allTracks)
  /\ UNCHANGED <<req, src, resp, ans, plResp>>
  /\ UNCHANGED cacheVars
  /\ UNCHANGED otherVars

\* line 152: the fetch of a later page rejects; nothing in getSpotifyPlaylist
\* catches it, so the handler's catch of lines 527-529 answers 500
PageThrows(r) ==
  /\ pc[r] = "page"
  /\ pl' = [pl EXCEPT ![r].pageFail = "throw"]
  /\ Respond(r, 500, Null, "transport")
  /\ UNCHANGED <<req, src, calls, ans, items, plResp>>
  /\ UNCHANGED cacheVars
  /\ UNCHANGED otherVars

\* pl.inverted records that some promise resolved while the promise of an
\* earlier track was still unsettled
ItemStep(r, k, new) ==
  /\ items' = [items EXCEPT ![r][k] = new]
  /\ pl' = [pl EXCEPT ![r].inverted =
              @ \/ (new.st = "resolved"
                      /\ \E j \in 1..(k - 1) : items[r][j].st # "resolved")]
  /\ UNCHANGED <<pc, req, src, calls, resp, ans, plResp>>
  /\ UNCHANGED cacheVars
  /\ UNCHANGED otherVars

\* lines 496, 502: the ISRC search of track k has a result
ItemCodeHit(r, k) ==
  /\ pc[r] = "join"
  /\ k \in 1..Len(items[r])
  /\ items[r][k].st = "code"
  /\ items[r][k].e.codeHit
  /\ ItemStep(r, k, [items[r][k] EXCEPT !.st = "resolved", !.codeAns = "hit",
                                      !.apple = "code"])

\* lines 496-499: the ISRC search of track k answers null (no item, or
\* non-2xx): the text search follows
ItemCodeNull(r, k) ==
  /\ pc[r] = "join"
  /\ k \in 1..Len(items[r])
  /\ items[r][k].st = "code"
  /\ \E bad \in BOOLEAN :
       /\ ~bad => ~items[r][k].e.codeHit
       /\ ItemStep(r, k, [items[r][k] EXCEPT !.st = "text", !.codeAns = "null",
                                             !.bad = bad])

\* lines 499, 502: the text search of track k has a result
ItemTextHit(r, k) ==
  /\ pc[r] = "join"
  /\ k \in 1..Len(items[r])
  /\ items[r][k].st = "text"
  /\ items[r][k].e.textHit
  /\ ItemStep(r, k, [items[r][k] EXCEPT !.st = "resolved", !.apple = "text"])

\* lines 499, 502: the text search of track k answers null
ItemTextNull(r, k) ==
  /\ pc[r] = "join"
  /\ k \in 1..Len(items[r])
  /\ items[r][k].st = "text"
  /\ \E bad \in BOOLEAN :
       /\ ~bad => ~items[r][k].e.textHit
       /\ ItemStep(r, k, [items[r][k] EXCEPT !.st = "resolved",
                                             !.bad = @ \/ bad])

\* lines 229, 239 inside 493-503: the fetch of a search of track k rejects.
\* The async executor's promise rejects and nobody handles it; resolve is
\* never called, so the promise handed to Promise.all stays pending.
ItemSearchThrows(r, k) ==
  /\ pc[r] = "join"
  /\ k \in 1..Len(items[r])
  /\ items[r][k].st \in {"code", "text"}
  /\ ItemStep(r, k, [items[r][k] EXCEPT !.st = "rejected"])

\* the same, on a runtime that ends the process on an unhandled rejection
ItemSearchThrowsExit(r, k) ==
  /\ pc[r] = "join"
  /\ k \in 1..Len(items[r])
  /\ items[r][k].st \in {"code", "text"}
  /\ items' = [items EXCEPT ![r][k].st = "rejected"]
  /\ pc' = [q \in Procs |-> "dead"]
  /\ UNCHANGED <<req, src, calls, resp, ans, pl, plResp>>
  /\ UNCHANGED cacheVars
  /\ UNCHANGED otherVars

Matches_All(its) == its

Matches_Reversed(its) ==
  LET kept == SelectSeq(its, LAMBDA it : it.apple # Null)
  IN [k \in 1..Len(kept) |-> kept[Len(kept) + 1 - k]]

\* line 518: results.filter(r => r.apple !== null)
Matches(its) == SelectSeq(its, LAMBDA it : it.apple # Null)

\* lines 507-523: every promise resolved; answer
Join(r) ==
  /\ pc[r] = "join"
  /\ \A k \in 1..Len(items[r]) : items[r][k].st = "resolved"
  /\ plResp' = [plResp EXCEPT ![r] =
                  [matches |-> Matches(items[r]),
                   original |-> Len(TracksOf(pl[r].allTracks)),
                   matched |-> Len(Matches(items[r]))]]
  /\ Respond(r, 200, Null, "none")
  /\ UNCHANGED <<req, src, calls, ans, pl, items>>
  /\ UNCHANGED cacheVars
  /\ UNCHANGED otherVars

\* no request is being served
AllIdle == \A q \in Reqs : pc[q] = "idle"

\* the playlist handler is followed for one request at a time
ReceivePlaylist(r) ==
  /\ AllIdle
  /\ ReceiveSpotify(r, "playlist")

\* the response is out; the slot takes the next request
Release(r) ==
  /\ pc[r] = "done"
  /\ pc' = [pc EXCEPT ![r] = "idle"]
  /\ req' = [req EXCEPT ![r] = NoReq]
  /\ src' = [src EXCEPT ![r] = NoEntity]
  /\ calls' = [calls EXCEPT ![r] = <<>>]
  /\ resp' = [resp EXCEPT ![r] = NoResp]
  /\ ans' = [ans EXCEPT ![r] = NoAns]
  /\ UNCHANGED cacheVars
  /\ pl' = [pl EXCEPT ![r] = NoPl]
  /\ items' = [items EXCEPT ![r] = <<>>]
  /\ plResp' = [plResp EXCEPT ![r] = NoPlResp]
  /\ UNCHANGED otherVars

\* ------------------------------------------------ two requests in a row
NoPrev == [has |-> FALSE, req |-> NoReq, calls |-> <<>>, src |-> NoEntity,
           ans |-> NoAns, resp |-> NoResp]

\* lines 308-312, 386-390: the handler has answered and is called again.
\* Its locals are new; of the program's state only spotifyTokenCache (line
\* 23) lives on. prev keeps what the first request did.
Again(r) ==
  /\ pc[r] = "done"
  /\ ~prev[r].has
  /\ req[r].ep \in {"song", "album"}
  /\ prev' = [prev EXCEPT ![r] = [has |-> TRUE, req |-> req[r], calls |-> calls[r],
                                  src |-> src[r], ans |-> ans[r], resp |-> resp[r]]]
  /\ pc' = [pc EXCEPT ![r] = "idle"]
  /\ req' = [req EXCEPT ![r] = NoReq]
  /\ src' = [src EXCEPT ![r] = NoEntity]
  /\ calls' = [calls EXCEPT ![r] = <<>>]
  /\ resp' = [resp EXCEPT ![r] = NoResp]
  /\ ans' = [ans EXCEPT ![r] = NoAns]
  /\ UNCHANGED cacheVars
  /\ UNCHANGED plVars
  /\ UNCHANGED <<parsedLink, redirect>>

\* ------------------------------------------------------ /r/song, /r/album
\* the redirect handler: where it is (none, fetch, done), its endpoint and
\* url, and the status and target it answered with
NoRedirect == [pc |-> "none", ep |-> "none", url |-> MissingUrl, status |-> 0,
               target |-> Null]

\* lines 362, 438: if (!url) return 400
RedirectMissingUrl(r, ep) ==
  /\ pc[r] = "idle"
  /\ redirect[r].pc = "none"
  /\ redirect' = [redirect EXCEPT ![r] = [pc |-> "done", ep |-> ep, url |-> MissingUrl,
                                          status |-> 400, target |-> Null]]
  /\ UNCHANGED reqVars
  /\ UNCHANGED cacheVars
  /\ UNCHANGED <<parsedLink, prev>>

\* lines 364-368, 440-444: the handler calls the mapper of its own server
\* with the url it was given
RedirectReceive(r, ep) ==
  /\ pc[r] = "idle"
  /\ redirect[r].pc = "none"
  /\ \E u \in SampleUrls :
       redirect' = [redirect EXCEPT ![r] = [pc |-> "fetch", ep |-> ep, url |-> u,
                                           status |-> 0, target |-> Null]]
  /\ UNCHANGED reqVars
  /\ UNCHANGED cacheVars
  /\ UNCHANGED <<parsedLink, prev>>

\* lines 368, 444 reject (the mapper is not reached): catch, 500
RedirectFetchThrows(r) ==
  /\ redirect[r].pc = "fetch"
  /\ pc[r] = "idle"
  /\ redirect' = [redirect EXCEPT ![r].pc = "done", ![r].status = 500]
  /\ UNCHANGED reqVars
  /\ UNCHANGED cacheVars
  /\ UNCHANGED <<parsedLink, prev>>

\* lines 369-377, 445-453: the status for the mapper's answer; hasUrl says
\* whether the match carries the URL field read as the target
RedirectStatus(mapper, hasUrl) ==
  IF mapper.status # 200 THEN 502
  ELSE IF mapper.match = Null \/ ~hasUrl THEN 404
  ELSE 302

\* lines 369-378, 445-454: the mapper has answered
RedirectResume(r) ==
  /\ redirect[r].pc = "fetch"
  /\ pc[r] = "done"
  /\ \E hasUrl \in BOOLEAN :
       redirect' = [redirect EXCEPT
                      ![r].pc = "done",
                      ![r].status = RedirectStatus(resp[r], hasUrl),
                      ![r].target = IF RedirectStatus(resp[r], hasUrl) = 302
                                      THEN "url" ELSE Null]
  /\ UNCHANGED reqVars
  /\ UNCHANGED cacheVars
  /\ UNCHANGED <<parsedLink, prev>>

InitRequests ==
  /\ pc = [r \in Procs |-> "idle"]
  /\ req = [r \in Procs |-> NoReq]
  /\ src = [r \in Procs |-> NoEntity]
  /\ calls = [r \in Procs |-> <<>>]
  /\ resp = [r \in Procs |-> NoResp]
  /\ ans = [r \in Procs |-> NoAns]
  /\ pl = [r \in Procs |-> NoPl]
  /\ items = [r \in Procs |-> <<>>]
  /\ plResp = [r \in Procs |-> NoPlResp]
  /\ parsedLink = [r \in Procs |-> NoLink]
  /\ prev = [r \in Procs |-> NoPrev]
  /\ redirect = [r \in Procs |-> NoRedirect]

InitTokenCache ==
  /\ now = 0
  /\ spotifyTokenCache = [token |-> 0, expires |-> 0]
  /\ env \in [id : BOOLEAN, secret : BOOLEAN]
  /\ tpc = [p \in Procs |-> "none"]
  /\ tok = [p \in Procs |-> 0]
  /\ terr = [p \in Procs |-> "none"]
  /\ exchanges = 0
  /\ tlog = [p \in Procs |-> NoLog]

InitCache == InitTokenCache /\ InitRequests

NextCache ==
  \/ \E p \in Callers : CallerInvoke(p)
  \/ \E p \in Callers : TokenExchangeOk(p)
  \/ \E p \in Callers : TokenExchangeRejected(p)
  \/ \E p \in Callers : TokenExchangeThrows(p)
  \/ \E p \in Callers : CallerResume(p)
  \/ Tick

CacheSpec == InitCache /\ [][NextCache]_vars

\* the song and album handlers, and every request an endpoint turns away
Endpoints == {"song", "album", "playlist"}
SingleEndpoints == {"song", "album"}

Init == InitTokenCache /\ InitRequests

Next ==
  \/ \E r \in Reqs, ep \in Endpoints : ReceiveMissingUrl(r, ep)
  \/ \E r \in Reqs, ep \in Endpoints : ReceiveUnsupported(r, ep)
  \/ \E r \in Reqs, ep \in SingleEndpoints : ReceiveSpotify(r, ep)
  \/ \E r \in Reqs, ep \in SingleEndpoints : ReceiveApple(r, ep)
  \/ \E r \in Reqs : LookupAnswers(r)
  \/ \E r \in Reqs : LookupThrows(r)
  \/ \E r \in Reqs : TokenExchangeOk(r)
  \/ \E r \in Reqs : TokenExchangeRejected(r)
  \/ \E r \in Reqs : TokenExchangeThrows(r)
  \/ \E r \in Reqs : TokenFailed(r)
  \/ \E r \in Reqs : TokenObtainedSpotify(r)
  \/ \E r \in Reqs : TokenObtainedApple(r)
  \/ \E r \in Reqs : FetchAnswers(r)
  \/ \E r \in Reqs : FetchFails(r)
  \/ \E r \in Reqs : CodeSearchHit(r)
  \/ \E r \in Reqs : CodeSearchNull(r)
  \/ \E r \in Reqs : TextSearchHit(r)
  \/ \E r \in Reqs : TextSearchNull(r)
  \/ \E r \in Reqs : SearchThrows(r)
  \/ \E r \in Reqs : Release(r)

Spec == Init /\ [][Next]_vars

\* the playlist handler
ItemIdx == 1..(MaxItems + 1)

NextPlaylist ==
  \/ \E r \in Reqs : ReceivePlaylist(r)
  \/ \E r \in Reqs : TokenExchangeOk(r)
  \/ \E r \in Reqs : TokenExchangeRejected(r)
  \/ \E r \in Reqs : TokenExchangeThrows(r)
  \/ \E r \in Reqs : TokenFailed(r)
  \/ \E r \in Reqs : TokenObtainedPlaylist(r)
  \/ \E r \in Reqs : MetaAnswers(r)
  \/ \E r \in Reqs : MetaFails(r)
  \/ \E r \in Reqs : PageAnswers(r)
  \/ \E r \in Reqs : PageNon2xx(r)
  \/ \E r \in Reqs : PageThrows(r)
  \/ \E r \in Reqs, k \in ItemIdx : ItemCodeHit(r, k)
  \/ \E r \in Reqs, k \in ItemIdx : ItemCodeNull(r, k)
  \/ \E r \in Reqs, k \in ItemIdx : ItemTextHit(r, k)
  \/ \E r \in Reqs, k \in ItemIdx : ItemTextNull(r, k)
  \/ \E r \in Reqs, k \in ItemIdx : ItemSearchThrows(r, k)
  \/ \E r \in Reqs, k \in ItemIdx : ItemSearchThrowsExit(r, k)
  \/ \E r \in Reqs : Join(r)

PlaylistSpec == Init /\ [][NextPlaylist]_vars

\* every handler, followed for one request
NextOne ==
  \/ \E r \in Reqs, ep \in Endpoints : AllIdle /\ ReceiveMissingUrl(r, ep)
  \/ \E r \in Reqs, ep \in Endpoints : AllIdle /\ ReceiveUnsupported(r, ep)
  \/ \E r \in Reqs, ep \in Endpoints : AllIdle /\ ReceiveSpotify(r, ep)
  \/ \E r \in Reqs, ep \in SingleEndpoints : AllIdle /\ ReceiveApple(r, ep)
  \/ \E r \in Reqs : LookupAnswers(r)
  \/ \E r \in Reqs : LookupThrows(r)
  \/ \E r \in Reqs : TokenExchangeOk(r)
  \/ \E r \in Reqs : TokenExchangeRejected(r)
  \/ \E r \in Reqs : TokenExchangeThrows(r)
  \/ \E r \in Reqs : TokenFailed(r)
  \/ \E r \in Reqs : TokenObtainedSpotify(r)
  \/ \E r \in Reqs : TokenObtainedApple(r)
  \/ \E r \in Reqs : TokenObtainedPlaylist(r)
  \/ \E r \in Reqs : FetchAnswers(r)
  \/ \E r \in Reqs : FetchFails(r)
  \/ \E r \in Reqs : CodeSearchHit(r)
  \/ \E r \in Reqs : CodeSearchNull(r)
  \/ \E r \in Reqs : TextSearchHit(r)
  \/ \E r \in Reqs : TextSearchNull(r)
  \/ \E r \in Reqs : SearchThrows(r)
  \/ \E r \in Reqs : MetaAnswers(r)
  \/ \E r \in Reqs : MetaFails(r)
  \/ \E r \in Reqs : PageAnswers(r)
  \/ \E r \in Reqs : PageNon2xx(r)
  \/ \E r \in Reqs : PageThrows(r)
  \/ \E r \in Reqs, k \in ItemIdx : ItemCodeHit(r, k)
  \/ \E r \in Reqs, k \in ItemIdx : ItemCodeNull(r, k)
  \/ \E r \in Reqs, k \in ItemIdx : ItemTextHit(r, k)
  \/ \E r \in Reqs, k \in ItemIdx : ItemTextNull(r, k)
  \/ \E r \in Reqs, k \in ItemIdx : ItemSearchThrows(r, k)
  \/ \E r \in Reqs, k \in ItemIdx : ItemSearchThrowsExit(r, k)
  \/ \E r \in Reqs : Join(r)

OneRequestSpec == Init /\ [][NextOne]_vars

\* the song and album handlers called twice in a row with the same link
Sole(r) == \A q \in Reqs \ {r} : pc[q] = "idle" /\ ~prev[q].has
SameLink(r) == prev[r].has => req'[r] = prev[r].req

NextRepeat ==
  \/ \E r \in Reqs, ep \in SingleEndpoints : Sole(r) /\ ReceiveSpotify(r, ep) /\ SameLink(r)
  \/ \E r \in Reqs, ep \in SingleEndpoints : Sole(r) /\ ReceiveApple(r, ep) /\ SameLink(r)
  \/ \E r \in Reqs : LookupAnswers(r)
  \/ \E r \in Reqs : LookupThrows(r)
  \/ \E r \in Reqs : TokenExchangeOk(r)
  \/ \E r \in Reqs : TokenExchangeRejected(r)
  \/ \E r \in Reqs : TokenExchangeThrows(r)
  \/ \E r \in Reqs : TokenFailed(r)
  \/ \E r \in Reqs : TokenObtainedSpotify(r)
  \/ \E r \in Reqs : TokenObtainedApple(r)
  \/ \E r \in Reqs : FetchAnswers(r)
  \/ \E r \in Reqs : FetchFails(r)
  \/ \E r \in Reqs : CodeSearchHit(r)
  \/ \E r \in Reqs : CodeSearchNull(r)
  \/ \E r \in Reqs : TextSearchHit(r)
  \/ \E r \in Reqs : TextSearchNull(r)
  \/ \E r \in Reqs : SearchThrows(r)
  \/ \E r \in Reqs : Again(r)

RepeatSpec == Init /\ [][NextRepeat]_vars

\* the redirect handlers, and the mapper requests they and others send
Direct(r) == \A q \in Reqs : pc[q] = "idle" /\ redirect[q].pc = "none"
Forwarded(r, ep) ==
  /\ redirect[r].pc = "fetch"
  /\ redirect[r].ep = ep
  /\ req'[r].url = redirect[r].url

NextRedirect ==
  \/ \E r \in Reqs, ep \in SingleEndpoints : Direct(r) /\ RedirectMissingUrl(r, ep)
  \/ \E r \in Reqs, ep \in SingleEndpoints : Direct(r) /\ RedirectReceive(r, ep)
  \/ \E r \in Reqs : RedirectFetchThrows(r)
  \/ \E r \in Reqs : RedirectResume(r)
  \/ \E r \in Reqs, ep \in Endpoints : Direct(r) /\ ReceiveMissingUrl(r, ep)
  \/ \E r \in Reqs, ep \in Endpoints : Direct(r) /\ ReceiveUnsupported(r, ep)
  \/ \E r \in Reqs, ep \in SingleEndpoints : Direct(r) /\ ReceiveSpotify(r, ep)
  \/ \E r \in Reqs, ep \in SingleEndpoints : Direct(r) /\ ReceiveApple(r, ep)
  \/ \E r \in Reqs, ep \in SingleEndpoints : ReceiveUnsupported(r, ep) /\ Forwarded(r, ep)
  \/ \E r \in Reqs, ep \in SingleEndpoints : ReceiveSpotify(r, ep) /\ Forwarded(r, ep)
  \/ \E r \in Reqs, ep \in SingleEndpoints : ReceiveApple(r, ep) /\ Forwarded(r, ep)
  \/ \E r \in Reqs : LookupAnswers(r)
  \/ \E r \in Reqs : LookupThrows(r)
  \/ \E r \in Reqs : TokenExchangeOk(r)
  \/ \E r \in Reqs : TokenExchangeRejected(r)
  \/ \E r \in Reqs : TokenExchangeThrows(r)
  \/ \E r \in Reqs : TokenFailed(r)
  \/ \E r \in Reqs : TokenObtainedSpotify(r)
  \/ \E r \in Reqs : TokenObtainedApple(r)
  \/ \E r \in Reqs : FetchAnswers(r)
  \/ \E r \in Reqs : FetchFails(r)
  \/ \E r \in Reqs : CodeSearchHit(r)
  \/ \E r \in Reqs : CodeSearchNull(r)
  \/ \E r \in Reqs : TextSearchHit(r)
  \/ \E r \in Reqs : TextSearchNull(r)
  \/ \E r \in Reqs : SearchThrows(r)

RedirectSpec == Init /\ [][NextRedirect]_vars

\* the parser on its own
MaxParts == 4
PathSegs == {"track", "album", "playlist", "x", "123", "456"}
QueryIds == {"", "456", "abc"}
Hosts == {"open.spotify.com", "music.apple.com", "geo.music.apple.com",
          "itunes.apple.com", "example.com"}
AllUrls ==
  {BadUrl} \cup
  { MkUrl(h, parts, i) :
      h \in Hosts, parts \in UNION {[1..n -> PathSegs] : n \in 0..MaxParts},
      i \in QueryIds }

\* lines 312, 390, 466: const parsed = parseInputUrl(url)
ParseLink(r) ==
  /\ AllIdle
  /\ \E u \in AllUrls :
       /\ req' = [req EXCEPT ![r] = [ep |-> "parse", url |-> u]]
       /\ parsedLink' = [parsedLink EXCEPT ![r] = ParseInputUrl(u)]
  /\ pc' = [pc EXCEPT ![r] = "parsed"]
  /\ UNCHANGED <<src, calls, resp, ans, plVars>>
  /\ UNCHANGED cacheVars
  /\ UNCHANGED <<prev, redirect>>

NextParse == \E r \in Reqs : ParseLink(r)

ParseSpec == Init /\ [][NextParse]_vars

\* every outbound call completes (answers or rejects) and the event loop
\* runs every continuation that is ready
FairPlaylistSpec == PlaylistSpec /\ WF_vars(NextPlaylist)
\* ------------------------------------------------------------------ claims
InCall(p) == tpc[p] \in {"exchanging", "returned", "threw"}

\* C1: calls of getSpotifyToken that overlap while the cache is Empty or
\* Expired share one token exchange: at most one exchange is in flight at
\* any time, and two callers whose exchanges overlapped hold the same token.
C1_OneExchangeInFlight ==
  /\ Cardinality({p \in Procs : tpc[p] = "exchanging"}) <= 1
  /\ \A p, q \in Procs :
       (tpc[p] = "returned" /\ tpc[q] = "returned"
          /\ tlog[p].via = "exchange" /\ tlog[q].via = "exchange"
          /\ tlog[p].startAt <= tlog[q].at /\ tlog[q].startAt <= tlog[p].at)
       => tok[p] = tok[q]

\* C7: a call made while the cache holds a credential and now < expiresAt
\* returns the cached value at once and issues no token exchange; a call
\* served from the cache was made at a time strictly before the stored
\* expiry.
C7_CacheHit ==
  \A p \in Procs : InCall(p) =>
    /\ (tlog[p].startTok # 0 /\ tlog[p].startAt < tlog[p].startExp)
         => /\ tpc[p] = "returned"
            /\ tlog[p].via = "cache"
            /\ tlog[p].sent = 0
            /\ tok[p] = tlog[p].startTok
    /\ tlog[p].via = "cache"
         => /\ tlog[p].startTok # 0
            /\ tlog[p].at < tlog[p].exp
            /\ tlog[p].sent = 0

C7_Witness ==
  \E p \in Procs : tpc[p] = "returned" /\ tlog[p].via = "cache" /\ tok[p] # 0

Refreshed(p) == tpc[p] = "returned" /\ tlog[p].via = "exchange"

\* C8 as stated: every successful refresh stores expiresAt = (time of
\* storing) + providerTtl - 300 and leaves the cache Valid (now < expiresAt)
\* whatever TTL the provider answered.
C8_AlwaysValidAfterRefresh ==
  \A p \in Procs : Refreshed(p) =>
    /\ tlog[p].exp = tlog[p].at + tlog[p].ttl - 300
    /\ tlog[p].at < tlog[p].exp

\* C8 amended: every successful refresh started with the cache Empty or
\* Expired and stores expiresAt = (time of storing) + providerTtl - 300; the
\* stored credential is Valid at that time exactly when providerTtl > 300;
\* a cache that holds a credential never returns to Empty.
C8_RefreshTransition ==
  /\ [](\A p \in Procs : Refreshed(p) =>
          /\ tlog[p].startTok = 0 \/ tlog[p].startAt >= tlog[p].startExp
          /\ tlog[p].exp = tlog[p].at + tlog[p].ttl - 300
          /\ tok[p] # 0
          /\ (tlog[p].at < tlog[p].exp) <=> (tlog[p].ttl > 300))
  /\ [][spotifyTokenCache.token # 0 => spotifyTokenCache'.token # 0]_vars

\* an Expired cache was refreshed and is Valid again
C8_Witness ==
  \E p \in Procs :
    /\ Refreshed(p)
    /\ tlog[p].startTok # 0
    /\ tlog[p].at < tlog[p].exp
    /\ spotifyTokenCache = [token |-> tok[p], expires |-> tlog[p].exp]

\* C9: with the cache Empty or Expired, a call fails with a configuration
\* error and issues no exchange when the client id or secret is absent, and
\* fails with a provider error when the exchange is rejected; a failing call
\* returns no credential and leaves the cache as it was, and every call that
\* finds the cache Empty or Expired with the secrets present issues an
\* exchange (so a call after a failure tries again).
C9_CredentialErrors ==
  /\ [](\A p \in Procs : InCall(p) =>
          /\ ((tlog[p].startTok = 0 \/ tlog[p].startAt >= tlog[p].startExp)
                /\ (~env.id \/ ~env.secret))
               => tpc[p] = "threw" /\ terr[p] = "config" /\ tlog[p].sent = 0
          /\ ((tlog[p].startTok = 0 \/ tlog[p].startAt >= tlog[p].startExp)
                /\ env.id /\ env.secret)
               => tlog[p].sent # 0
          /\ tpc[p] = "threw" => tok[p] = 0 /\ tlog[p].via = "none"
          /\ (tpc[p] = "threw" /\ terr[p] # "config") => tlog[p].sent # 0)
  /\ [][\A p \in Procs :
          (tpc[p] # "threw" /\ tpc'[p] = "threw")
            => /\ spotifyTokenCache' = spotifyTokenCache
               /\ exchanges' = exchanges
               /\ terr'[p] \in {"config", "provider", "transport"}]_vars

\* an exchange was rejected while the cache held an expired credential
C9_Witness ==
  \E p \in Procs :
    /\ tpc[p] = "threw"
    /\ terr[p] = "provider"
    /\ spotifyTokenCache.token # 0
    /\ spotifyTokenCache.expires <= now

\* the links an endpoint serves, as the claim words it: a known platform, the
\* endpoint's own kind, and an id
Supported(ep, link) ==
  /\ link.platform \in {"spotify", "apple"}
  /\ link.kind = ep
  /\ link.id # Null

\* C10: a request whose parsed link its endpoint does not support is
\* answered 400 (unsupported link) and issues no network call at all: no
\* token exchange, no origin fetch, no destination search.
C10_RejectBeforeNetwork ==
  \A r \in Reqs :
    (pc[r] # "idle" /\ req[r].url.present /\ ~Supported(req[r].ep, Parsed(r)))
    => /\ pc[r] = "done"
       /\ resp[r].status = 400
       /\ resp[r].error = "unsupported"
       /\ calls[r] = <<>>
       /\ tpc[r] = "none"

\* a Spotify track link without an id was turned away by /map/song
C10_Witness ==
  \E r \in Reqs :
    /\ pc[r] = "done"
    /\ req[r].ep = "song"
    /\ Parsed(r) = Link("spotify", "song", Null)
    /\ resp[r].status = 400

\* C2: in every resolution path, once the destination's code search has
\* returned a result for the source's external code, that result is the
\* match: no text search is issued after it and the response (for a playlist
\* item, the item's entry in matches) carries the code search's result.
C2_TierOrdering ==
  \A r \in Reqs :
    /\ ans[r].code = "hit" =>
         /\ src[r].code
         /\ pc[r] = "done"
         /\ resp[r].status = 200
         /\ resp[r].match = "code"
         /\ ans[r].text = "none"
         /\ calls[r][Len(calls[r])] = "code"
    /\ \A k \in 1..Len(items[r]) :
         items[r][k].codeAns = "hit" =>
           /\ items[r][k].e.code
           /\ items[r][k].st = "resolved"
           /\ items[r][k].apple = "code"
           /\ (pc[r] = "done" /\ resp[r].status = 200) =>
                \E m \in 1..Len(plResp[r].matches) :
                  /\ plResp[r].matches[m].e = items[r][k].e
                  /\ plResp[r].matches[m].apple = "code"

\* an Apple song link was matched by ISRC although the text search has a
\* result too
C2_Witness ==
  \E r \in Reqs :
    /\ pc[r] = "done"
    /\ req[r].ep = "song"
    /\ RouteOf(r) = "BA"
    /\ ans[r].code = "hit"
    /\ src[r].textHit
    /\ resp[r].match = "code"

\* the listing of getSpotifyPlaylist is over and was handed to the fan-out
Listed(r) == pc[r] = "join" \/ (pc[r] = "done" /\ resp[r].status = 200 /\ pl[r].pages > 0)

TrackSeq(r) == [k \in 1..Len(items[r]) |-> items[r][k].e]

\* C5 as stated: when every page fetch succeeds the listing follows the
\* cursor to its end and is exactly the concatenation of all pages' items.
C5_EveryItemListed ==
  \A r \in Reqs : (Listed(r) /\ pl[r].pageFail = "none") =>
    /\ ~pl[r].more
    /\ Len(items[r]) = Len(pl[r].served)
    /\ \A k \in 1..Len(pl[r].served) :
         pl[r].served[k].track /\ items[r][k].e = pl[r].served[k].e

\* C5 amended: when every page fetch succeeds the listing follows the
\* cursor to its end and is the concatenation, in page order and in the
\* order within each page, of the tracks of all pages' items, the items
\* whose track is null left out.
C5_PaginationComplete ==
  \A r \in Reqs : (Listed(r) /\ pl[r].pageFail = "none") =>
    /\ ~pl[r].more
    /\ \E f \in [1..Len(items[r]) -> 1..Len(pl[r].served)] :
         /\ \A k \in 1..Len(items[r]) :
              pl[r].served[f[k]].track /\ items[r][k].e = pl[r].served[f[k]].e
         /\ \A j, k \in 1..Len(items[r]) : j < k => f[j] < f[k]
         /\ \A m \in 1..Len(pl[r].served) :
              pl[r].served[m].track => \E k \in 1..Len(items[r]) : f[k] = m

\* two pages or more, a null track among the items, two tracks listed
C5_Witness ==
  \E r \in Reqs :
    /\ Listed(r) /\ pl[r].pageFail = "none"
    /\ pl[r].pages >= 2
    /\ Len(items[r]) >= 2
    /\ items[r][1].e # items[r][2].e
    /\ \E m \in 1..Len(pl[r].served) : ~pl[r].served[m].track

\* C6: a failure of the fetch of a page after the first (non-2xx or
\* transport) does not fail the listing: it ends with the tracks of the pages
\* fetched before, and the playlist is resolved on them.
C6_PageFailureTruncates ==
  \A r \in Reqs : pl[r].pageFail # "none" =>
    /\ Listed(r)
    /\ TrackSeq(r) = TracksOf(pl[r].served)

\* C3: the failure of one item's search does not fail the playlist: the
\* request completes with a result that counts every track.
C3_ItemFailureIsolated ==
  \A r \in Reqs :
    (\E k \in 1..Len(items[r]) : items[r][k].st = "rejected")
      ~> (pc[r] = "done" /\ resp[r].status = 200
            /\ plResp[r].original = Len(items[r]))

\* C4: every playlist request that was received is answered.
C4_PlaylistAnswered ==
  \A r \in Reqs : (pc[r] # "idle") ~> (pc[r] = "done")
\* a process parsed the URL u and holds the link L
Parses(r) == pc[r] = "parsed"
OnSpotify(u) == u.ok /\ u.host = "open.spotify.com"
OnApple(u) == u.ok /\ u.host \in {"music.apple.com", "geo.music.apple.com", "itunes.apple.com"}

\* C11 as stated: a link of a known platform and of kind song, album or
\* playlist has an id; on a Spotify host the link is a song with an id
\* exactly when path segment 0 is "track".
C11_KnownKindHasId ==
  \A r \in Reqs : Parses(r) =>
    LET u == req[r].url
        L == parsedLink[r]
    IN /\ (L.platform \in {"spotify", "apple"} /\ L.kind \in {"song", "album", "playlist"})
            => L.id # Null
       /\ OnSpotify(u) =>
            ((L.kind = "song" /\ L.id # Null) <=> (Len(u.parts) >= 1 /\ u.parts[1] = "track"))

\* C11 amended: an Apple link of kind song or album has an id; a Spotify
\* link of kind song, album or playlist has path segment 1 as its id when
\* that segment exists and a null id when it does not; on a Spotify host the
\* link is a song exactly when path segment 0 is "track", and a song with an
\* id exactly when moreover segment 1 exists.
C11_ParserId ==
  \A r \in Reqs : Parses(r) =>
    LET u == req[r].url
        L == parsedLink[r]
    IN /\ (L.platform = "apple" /\ L.kind \in {"song", "album"}) => L.id # Null
       /\ L.kind = "playlist" => L.platform = "spotify"
       /\ (L.platform = "spotify" /\ L.kind \in {"song", "album", "playlist"})
            => /\ L.id # Null <=> Len(u.parts) >= 2
               /\ L.id # Null => L.id = u.parts[2]
       /\ OnSpotify(u) =>
            /\ L.platform = "spotify"
            /\ L.kind = "song" <=> (Len(u.parts) >= 1 /\ u.parts[1] = "track")
            /\ (L.kind = "song" /\ L.id # Null)
                 <=> (Len(u.parts) >= 2 /\ u.parts[1] = "track")

\* a Spotify track link with its id, and the parser's answer
C11_Witness ==
  \E r \in Reqs :
    /\ Parses(r)
    /\ req[r].url = MkUrl("open.spotify.com", <<"track", "x">>, "")
    /\ parsedLink[r] = Link("spotify", "song", "x")

\* C12: an Apple link that carries the query parameter i is a song whose id
\* is the parameter's value, whatever its path.
C12_QueryDominates ==
  \A r \in Reqs : Parses(r) =>
    LET u == req[r].url
    IN (OnApple(u) /\ u.i # "") => parsedLink[r] = Link("apple", "song", u.i)

\* the path alone names an album by both rules, the parameter wins
C12_Witness ==
  \E r \in Reqs :
    /\ Parses(r)
    /\ req[r].url = MkUrl("itunes.apple.com", <<"x", "album", "x", "123">>, "456")
    /\ parsedLink[r] = Link("apple", "song", "456")

\* the album rules as C19 words them: the first all-digit segment at or
\* after two positions behind the first marker, else the last all-digit
\* segment of the path
HasMarker(parts) == \E k \in 1..Len(parts) : parts[k] = "album"
FirstMarker(parts) ==
  CHOOSE k \in 1..Len(parts) :
    parts[k] = "album" /\ \A j \in 1..(k - 1) : parts[j] # "album"
DigitPositionsFrom(parts, k) == {j \in k..Len(parts) : parts[j] \in {"123", "456"}}
MinOf(S) == CHOOSE x \in S : \A y \in S : x <= y
MaxOf(S) == CHOOSE x \in S : \A y \in S : x >= y
ScannedAlbumId(parts) ==
  IF ~HasMarker(parts) THEN Null
  ELSE IF DigitPositionsFrom(parts, FirstMarker(parts) + 2) # {}
    THEN parts[MinOf(DigitPositionsFrom(parts, FirstMarker(parts) + 2))]
  ELSE IF DigitPositionsFrom(parts, 1) # {}
    THEN parts[MaxOf(DigitPositionsFrom(parts, 1))]
  ELSE Null

\* C19 as stated: without the parameter i, an Apple link is an album whose
\* id is found by scanning for all-digit segments, and is unknown only when
\* there is no marker or no all-digit segment.
C19_ScanningRules ==
  \A r \in Reqs : Parses(r) =>
    LET u == req[r].url
    IN (OnApple(u) /\ u.i = "") =>
         parsedLink[r] = IF ScannedAlbumId(u.parts) # Null
                           THEN Link("apple", "album", ScannedAlbumId(u.parts))
                           ELSE Link("apple", "unknown", Null)

\* C19 amended: without the parameter i, an Apple link whose path has an
\* album marker is an album with id = the segment exactly two positions
\* after the first marker when that segment is all-digit, otherwise the
\* last segment of the path when that one is all-digit; in every other case
\* the link is unknown with a null id.
C19_AlbumIdExtraction ==
  \A r \in Reqs : Parses(r) =>
    LET u == req[r].url
        n == Len(u.parts)
        m == FirstMarker(u.parts)
    IN (OnApple(u) /\ u.i = "") =>
         parsedLink[r] =
           IF HasMarker(u.parts) /\ m + 2 <= n /\ u.parts[m + 2] \in {"123", "456"}
             THEN Link("apple", "album", u.parts[m + 2])
           ELSE IF HasMarker(u.parts) /\ u.parts[n] \in {"123", "456"}
             THEN Link("apple", "album", u.parts[n])
           ELSE Link("apple", "unknown", Null)

\* the two rules name different segments and the first one wins
C19_Witness ==
  \E r \in Reqs :
    /\ Parses(r)
    /\ req[r].url = MkUrl("music.apple.com", <<"album", "x", "123", "456">>, "")
    /\ parsedLink[r] = Link("apple", "album", "123")
\* a playlist request was answered with a result
Answered(r) == pc[r] = "done" /\ req[r].ep = "playlist" /\ resp[r].status = 200
\* the positions of the tracks whose resolution produced a match
MatchedAt(r) == {k \in 1..Len(items[r]) : items[r][k].apple # Null}

\* C13: in every playlist result, matched is the number of tracks whose
\* resolution produced a match, which is the number of matches listed;
\* original is the number of tracks the listing returned, matched or not;
\* and matched <= original.
C13_CountInvariant ==
  \A r \in Reqs : Answered(r) =>
    /\ plResp[r].matched = Cardinality(MatchedAt(r))
    /\ plResp[r].matched = Len(plResp[r].matches)
    /\ plResp[r].original = Len(items[r])
    /\ plResp[r].original = Len(TracksOf(pl[r].served))
    /\ plResp[r].matched <= plResp[r].original

\* a result with a matched and an unmatched track
C13_Witness ==
  \E r \in Reqs :
    /\ Answered(r)
    /\ plResp[r].matched >= 1
    /\ plResp[r].matched < plResp[r].original

\* the k-th smallest element of a set of positions
RECURSIVE Ascending(_)
Ascending(S) ==
  IF S = {} THEN <<>>
  ELSE LET m == CHOOSE x \in S : \A y \in S : x <= y
       IN <<m>> \o Ascending(S \ {m})

\* C20: whatever the order in which the per-track searches complete, the
\* matches of the result are the matched tracks in their playlist order,
\* each once.
C20_MatchOrder ==
  \A r \in Reqs : Answered(r) =>
    /\ Len(plResp[r].matches) = Cardinality(MatchedAt(r))
    /\ \A j \in 1..Len(plResp[r].matches) :
         plResp[r].matches[j] = items[r][Ascending(MatchedAt(r))[j]]

\* two different matched tracks, the later one having resolved while an
\* earlier one was still searching
C20_Witness ==
  \E r \in Reqs :
    /\ Answered(r)
    /\ pl[r].inverted
    /\ Len(plResp[r].matches) >= 2
    /\ plResp[r].matches[1] # plResp[r].matches[2]
\* a song or album request, answered
Single(r) == req[r].ep \in {"song", "album"}
Count(seq, c) == Cardinality({k \in 1..Len(seq) : seq[k] = c})
CatalogueCalls(seq) == SelectSeq(seq, LAMBDA c : c # "token")

\* the same link was resolved twice, the first time with no match, and the
\* providers answered the second request as they answered the first
ResolvedTwice(r) ==
  /\ prev[r].has /\ pc[r] = "done" /\ req[r] = prev[r].req
  /\ prev[r].resp.status = 200 /\ prev[r].resp.match = Null
  /\ resp[r].status = 200
  /\ src[r] = prev[r].src /\ ans[r] = prev[r].ans

\* C14 as stated: the second resolution yields no match and issues the
\* same sequence of outbound calls as the first.
C14_SameCalls ==
  \A r \in Reqs : ResolvedTwice(r) =>
    /\ resp[r].match = Null
    /\ calls[r] = prev[r].calls

\* C14 amended: the second resolution yields no match and issues the same
\* sequence of catalogue calls (source fetch and searches) as the first;
\* the two may differ in the token exchange, which a resolution issues
\* only when the token cache holds no valid token.
C14_NoNegativeCaching ==
  \A r \in Reqs : ResolvedTwice(r) =>
    /\ resp[r].match = Null
    /\ CatalogueCalls(calls[r]) = CatalogueCalls(prev[r].calls)
    /\ Count(calls[r], "token") <= 1
    /\ Count(prev[r].calls, "token") <= 1

\* the second resolution found the token in the cache
C14_Witness ==
  \E r \in Reqs :
    /\ ResolvedTwice(r)
    /\ Count(prev[r].calls, "token") = 1
    /\ Count(calls[r], "token") = 0
    /\ Count(calls[r], "text") = 1

\* C15: when the fetch of the source entity finds nothing or fails, the
\* request is answered with an error, never with a result, and no search
\* is issued.
C15_SourceFailurePropagates ==
  \A r \in Reqs :
    (Single(r) /\ ans[r].src \in {"missing", "non2xx", "throw"}) =>
      /\ pc[r] = "done" => resp[r].status # 200
      /\ Count(calls[r], "code") = 0
      /\ Count(calls[r], "text") = 0

\* C17: on every song and album path, when the source entity carries a
\* code, the code search is called before any text search.
C17_TierOneAttempted ==
  \A r \in Reqs :
    (Single(r) /\ src[r].code
       /\ (pc[r] \in {"code", "text"} \/ (pc[r] = "done" /\ resp[r].status = 200))) =>
      \E i \in 1..Len(calls[r]) :
        /\ calls[r][i] = "code"
        /\ \A j \in 1..(i - 1) : calls[r][j] # "text"

\* C18: when the code search was not made or gave nothing, the text search
\* is called exactly once; there is no match exactly when neither search
\* gave a result.
C18_TierTwoFallback ==
  \A r \in Reqs :
    (Single(r) /\ pc[r] = "done" /\ resp[r].status = 200) =>
      /\ ans[r].code # "hit" => Count(calls[r], "text") = 1
      /\ resp[r].match = Null <=> (ans[r].code # "hit" /\ ans[r].text # "hit")

\* the failures of the source fetch, of the token and of a search
UpstreamErrors == {"config", "provider", "transport", "upstream"}

\* C16: 400 for a missing url and for an unsupported link, 500 for an
\* upstream or token failure, on the mapper and on the redirect endpoints;
\* on the redirect endpoints 404 for no match, and 302 only with a target
\* taken from a match.
C16_StatusMapping ==
  \A r \in Reqs :
    /\ pc[r] = "done" =>
         /\ req[r].url = MissingUrl => resp[r].status = 400
         /\ (req[r].url # MissingUrl /\ RouteOf(r) = "unsupported") => resp[r].status = 400
         /\ resp[r].error \in UpstreamErrors => resp[r].status = 500
    /\ redirect[r].pc = "done" =>
         /\ redirect[r].url = MissingUrl => redirect[r].status = 400
         /\ redirect[r].status = 302 =>
              /\ pc[r] = "done" /\ resp[r].status = 200 /\ resp[r].match # Null
              /\ redirect[r].target # Null
         /\ pc[r] = "done" =>
              /\ RouteOf(r) = "unsupported" => redirect[r].status = 400
              /\ resp[r].error \in UpstreamErrors => redirect[r].status = 500
              /\ (resp[r].status = 200 /\ resp[r].match = Null) => redirect[r].status = 404
====
